---- MODULE Spec2Model ----
(***************************************************************************)
(* A model of the dataset-preparation pipeline of TrafficSpeedDataset      *)
(* (src/trafficdl/data/dataset/traffic_speed_dataset.py) and of the        *)
(* construction of LINE (src/libcity/model/road_representation/LINE.py).   *)
(*                                                                         *)
(* Arrays are sequences: a 4-D array (sample, step, node, channel) is a    *)
(* sequence of samples, a sample a sequence of steps, a step a sequence of *)
(* nodes, a node a sequence of channel values.  Python indices are kept    *)
(* 0-based in the arithmetic and shifted by one where a sequence is read.  *)
(***************************************************************************)
EXTENDS Integers, Sequences, FiniteSets, TLC

VARIABLES
    config,       \* the configuration the object was built from (self.<option>)
    geo_file,     \* the .geo table: [exists, geo_id]
    rel_file,     \* the .rel table: [exists, ncols, rows]
    dyna,         \* the .dyna table: one row per (entity, time), entity-major
    cache_file,   \* the file at cache_file_name: [exists, arrays]
    objs,         \* the TrafficSpeedDataset objects, by identity
    df,           \* the array handed to a direct call of _generate_input_data
    ret,          \* what the last direct call of a method returned or raised
    runs,         \* the six arrays of two runs of _get_scalar
    scalers,      \* the scaler each of the two runs built
    line          \* the LINE model object

vars == <<config, geo_file, rel_file, dyna, cache_file, objs, df, ret, runs, scalers, line>>

----------------------------------------------------------------------------
(* Bounds of the model. *)

\* longest series handed to _generate_input_data and to the split
MaxT == 6
\* largest input_window and output_window
MaxWin == 3
\* train_rate and eval_rate are multiples of 1 / RateDen
RateDen == 4
\* dataset objects built over the same files
MaxObj == 2
\* get_data calls on one object
MaxCalls == 2
\* longest .dyna series get_data is run on
MaxLen == 4
\* largest raw measurement
MaxVal == 2
\* most rows of a .rel table
MaxRows == 2

----------------------------------------------------------------------------
(* Sequences and integers. *)

Range(s) == {s[i] : i \in DOMAIN s}

Abs(i) == IF i < 0 THEN -i ELSE i

Min(S) == CHOOSE m \in S : \A e \in S : m <= e

Max(S) == CHOOSE m \in S : \A e \in S : m >= e

\* range(lo, hi) as a sequence
PyRange(lo, hi) == [i \in 1..(IF hi > lo THEN hi - lo ELSE 0) |-> lo + i - 1]

----------------------------------------------------------------------------
(* _generate_input_data: the sliding windows of a series.                  *)

\* np.sort(np.arange(-input_window + 1, 1, 1))
x_offsets(input_window) == [i \in 1..input_window |-> -input_window + i]

\* the target offsets started one step early, on the last input step
y_offsets_from_zero(output_window) == [i \in 1..output_window |-> i - 1]

\* np.sort(np.arange(1, output_window + 1, 1))
y_offsets(output_window) == [i \in 1..output_window |-> i]

min_t(input_window) == Abs(Min(Range(x_offsets(input_window))))

max_t(num_samples, output_window) ==
    Abs(num_samples - Abs(Max(Range(y_offsets(output_window)))))

\* the values of t the loop visits: range(min_t, max_t)
t_range(num_samples, input_window, output_window) ==
    PyRange(min_t(input_window), max_t(num_samples, output_window))

\* numpy accepts an index i of an axis of length n iff -n <= i < n
InBounds(n, i) == -n <= i /\ i < n

\* a[idx] for an index array idx: a negative index counts from the end
FancyIndex(a, idx) ==
    [j \in DOMAIN idx |-> a[(IF idx[j] < 0 THEN idx[j] + Len(a) ELSE idx[j]) + 1]]

\* whether df[t + offsets] raises IndexError
ReadFails(a, t, offsets) == \E j \in DOMAIN offsets : ~InBounds(Len(a), t + offsets[j])

\* the loop and np.stack, for the offsets xo, yo and the values ts of t:
\* err is "" when the function returns; visited is the values of t the loop
\* body ran for (the body that raises is the last one)
Windows(a, xo, yo, ts) ==
    IF \E k \in DOMAIN ts : ReadFails(a, ts[k], xo) \/ ReadFails(a, ts[k], yo)
    THEN [err |-> "IndexError", x |-> <<>>, y |-> <<>>,
          visited |-> SubSeq(ts, 1, Min({k \in DOMAIN ts :
                                  ReadFails(a, ts[k], xo) \/ ReadFails(a, ts[k], yo)}))]
    ELSE IF Len(ts) = 0
    THEN [err |-> "ValueError", x |-> <<>>, y |-> <<>>, visited |-> ts]
    ELSE [err |-> "",
          x |-> [k \in DOMAIN ts |-> FancyIndex(a, [j \in DOMAIN xo |-> ts[k] + xo[j]])],
          y |-> [k \in DOMAIN ts |-> FancyIndex(a, [j \in DOMAIN yo |-> ts[k] + yo[j]])],
          visited |-> ts]

_generate_input_data(a, input_window, output_window) ==
    Windows(a, x_offsets(input_window), y_offsets(output_window),
            t_range(Len(a), input_window, output_window))

----------------------------------------------------------------------------
(* Numbers.  A rational is <<n, d>> with d > 0 in lowest terms.  A float is *)
(* [k, a, b]: k = "num" stands for a + b * std, where std is the standard   *)
(* deviation held by the StandardScaler of the run (b = <<0, 1>> whenever   *)
(* std is rational or no StandardScaler is in use); k = "nan", "inf" and    *)
(* "ninf" are the IEEE values a division by zero produces.                  *)

RECURSIVE GCD(_, _)
GCD(a, b) == IF b = 0 THEN a ELSE GCD(b, a % b)

Rat(n, d) ==
    LET g == GCD(Abs(n), Abs(d))
        s == IF d < 0 THEN -1 ELSE 1
    IN  <<(s * n) \div g, (s * d) \div g>>

RZero == <<0, 1>>
ROne == <<1, 1>>
RAdd(p, q) == Rat(p[1] * q[2] + q[1] * p[2], p[2] * q[2])
RSub(p, q) == Rat(p[1] * q[2] - q[1] * p[2], p[2] * q[2])
RMul(p, q) == Rat(p[1] * q[1], p[2] * q[2])
RDiv(p, q) == Rat(p[1] * q[2], p[2] * q[1])
RLeq(p, q) == p[1] * q[2] <= q[1] * p[2]

RECURSIVE RSum(_)
RSum(s) == IF s = <<>> THEN RZero ELSE RAdd(Head(s), RSum(Tail(s)))

RMax(S) == CHOOSE m \in S : \A e \in S : RLeq(e, m)
RMin(S) == CHOOSE m \in S : \A e \in S : RLeq(m, e)

ISqrt(n) == CHOOSE r \in 0..n : r * r <= n /\ (r + 1) * (r + 1) > n
IsSquare(q) == ISqrt(q[1]) * ISqrt(q[1]) = q[1] /\ ISqrt(q[2]) * ISqrt(q[2]) = q[2]
RSqrt(q) == <<ISqrt(q[1]), ISqrt(q[2])>>

Num(r) == [k |-> "num", a |-> r, b |-> RZero]
IntF(i) == Num(<<i, 1>>)
NaN == [k |-> "nan", a |-> RZero, b |-> RZero]
PInf == [k |-> "inf", a |-> RZero, b |-> RZero]
NInf == [k |-> "ninf", a |-> RZero, b |-> RZero]

\* the float n / 0 for a rational n
DivByZero(n) == IF n[1] = 0 THEN NaN ELSE IF n[1] > 0 THEN PInf ELSE NInf

\* (v - sub) / div for rationals sub and div, div >= 0
FAffine(v, sub, div) ==
    IF v.k # "num" THEN v
    ELSE IF div[1] = 0 THEN DivByZero(RSub(v.a, sub))
    ELSE Num(RDiv(RSub(v.a, sub), div))

\* v * 2. - 1.
FTwiceMinusOne(v) ==
    IF v.k # "num" THEN v ELSE Num(RSub(RMul(<<2, 1>>, v.a), ROne))

\* (v - mean) / std, where std is the square root of the rational var
FStandard(v, mean, var) ==
    IF v.k # "num" THEN v
    ELSE IF var[1] = 0 THEN DivByZero(RSub(v.a, mean))
    ELSE IF IsSquare(var) THEN Num(RDiv(RSub(v.a, mean), RSqrt(var)))
    ELSE [k |-> "num", a |-> v.b, b |-> RDiv(RSub(v.a, mean), var)]

\* Python 3 round() of the rational q: to the nearest integer, a tie to the even one
round(q) ==
    LET fl == q[1] \div q[2]
        r2 == 2 * (q[1] % q[2])
    IN  IF r2 < q[2] THEN fl
        ELSE IF r2 > q[2] THEN fl + 1
        ELSE IF fl % 2 = 0 THEN fl ELSE fl + 1

\* a slice bound i of a sequence of length n, as Python clamps it
Clamp(n, i) == IF i < 0 THEN (IF i + n < 0 THEN 0 ELSE i + n) ELSE (IF i > n THEN n ELSE i)

\* the 0-based indices a[lo:hi] selects
Slice(n, lo, hi) == PyRange(Clamp(n, lo), Clamp(n, hi))

----------------------------------------------------------------------------
(* TrafficSpeedDataset.__init__, _load_geo, _load_rel.                     *)

\* integers up to this magnitude are exact in np.float32 (24-bit significand)
Float32Exact == 16777216

\* the np.float32 nearest to an integer-valued float below 2 * Float32Exact
float32(v) ==
    IF v.k # "num" \/ Abs(v.a[1]) <= Float32Exact THEN v
    ELSE IntF(2 * round(<<v.a[1], 2>>))

\* ln(1 / adj_epsilon) for the default adj_epsilon = 0.1, to six places
LnInvEpsilon == <<2302585, 1000000>>

\* a scaler object: its class and the statistics it holds (std = sqrt(var));
\* a statistic a class does not hold is NaN
NoScaler == [type |-> "unset", max |-> NaN, min |-> NaN, mean |-> NaN, var |-> NaN]

\* the three dataloaders before get_data has built them
NoLoaders == [built |-> FALSE, train |-> <<>>, eval |-> <<>>, test |-> <<>>]

\* the attributes as __init__ first assigns them
NoObject ==
    [pc |-> "none", err |-> "", weight_col |-> "", output_dim |-> 0,
     data |-> "None", scaler |-> NoScaler, feature_dim |-> 0, num_nodes |-> 0,
     geo_ids |-> <<>>, geo_to_ind |-> <<>>, adj_mx |-> <<>>, has_adj |-> FALSE,
     dataloaders |-> NoLoaders, calls |-> 0]

\* the dict built by `for index, id in enumerate(self.geo_ids)`: a later
\* occurrence of an id overwrites an earlier one
geo_to_ind_of(geo_ids) ==
    [id \in Range(geo_ids) |-> Max({i \in DOMAIN geo_ids : geo_ids[i] = id}) - 1]

_load_geo(o, geofile) ==
    [o EXCEPT !.geo_ids = geofile.geo_id,
              !.num_nodes = Len(geofile.geo_id),
              !.geo_to_ind = geo_to_ind_of(geofile.geo_id)]

\* a relation table that keeps the rows whose weight is missing
distance_df_unfiltered(rows) == rows

\* relfile[~relfile[weight_col].isna()][[origin_id, destination_id, weight_col]]
distance_df(rows) == SelectSeq(rows, LAMBDA r : r.w.k # "nan")

\* the loop over distance_df.values, from the last row back to the first:
\* cell (i, j), 0-based, after every row has been applied in file order
RECURSIVE CellAfter(_, _, _, _)
CellAfter(rows, g2i, i, j) ==
    IF rows = <<>> THEN PInf
    ELSE LET row == rows[Len(rows)]
             known == row.origin_id \in DOMAIN g2i /\ row.destination_id \in DOMAIN g2i
         IN  IF known /\ g2i[row.origin_id] = i /\ g2i[row.destination_id] = j
             THEN float32(row.w)
             ELSE CellAfter(SubSeq(rows, 1, Len(rows) - 1), g2i, i, j)

\* np.exp(-np.square(adj_mx / std)) thresholded at adj_epsilon, for the cell
\* value v and the variance var of the finite cells (has_var: there is one).
\* exp(-r) is the float [k |-> "exp", a |-> r].
GaussCell(v, has_var, var) ==
    IF ~has_var \/ v.k = "nan" THEN NaN
    ELSE IF v.k # "num" THEN IntF(0)
    ELSE IF var[1] = 0 THEN (IF v.a[1] = 0 THEN NaN ELSE IntF(0))
    ELSE LET r == RDiv(RMul(v.a, v.a), var)
         IN  IF ~RLeq(r, LnInvEpsilon) THEN IntF(0)
             ELSE [k |-> "exp", a |-> r, b |-> RZero]

\* the population variance of a non-empty sequence of rationals
Variance(s) ==
    LET n == <<Len(s), 1>>
        mean == RDiv(RSum(s), n)
    IN  RSub(RDiv(RSum([i \in DOMAIN s |-> RMul(s[i], s[i])]), n), RMul(mean, mean))

Flatten2(m) ==
    LET n == Len(m)
    IN  [k \in 1..(n * n) |-> m[((k - 1) \div n) + 1][((k - 1) % n) + 1]]

_calculate_adjacency_matrix(adj) ==
    LET finite == SelectSeq(Flatten2(adj), LAMBDA v : v.k = "num")
        dist == [i \in DOMAIN finite |-> finite[i].a]
        has_var == Len(dist) > 0
        var == IF has_var THEN Variance(dist) ELSE RZero
    IN  [i \in DOMAIN adj |-> [j \in DOMAIN adj[i] |-> GaussCell(adj[i][j], has_var, var)]]

\* _load_rel on an object whose _load_geo has run
_load_rel(o, relfile, calculate_weight) ==
    IF o.weight_col = "" /\ relfile.ncols # 5
    THEN [o EXCEPT !.err = "ValueError"]
    ELSE LET n == Len(o.geo_ids)
             rows == distance_df(relfile.rows)
             adj == [i \in 1..n |-> [j \in 1..n |-> CellAfter(rows, o.geo_to_ind, i - 1, j - 1)]]
         IN  [o EXCEPT !.weight_col = IF o.weight_col = "" THEN relfile.last_col ELSE @,
                       !.has_adj = TRUE,
                       !.adj_mx = IF calculate_weight
                                  THEN _calculate_adjacency_matrix(adj) ELSE adj]

\* the end of __init__: pc = "failed" when it raised
Built(o) == IF o.err # "" THEN [o EXCEPT !.pc = "failed"] ELSE [o EXCEPT !.pc = "constructed"]

\* the optional _load_rel of __init__
WithRel(o, cfg, relfile) ==
    IF relfile.exists THEN _load_rel(o, relfile, cfg.calculate_weight) ELSE o

\* __init__: the object it leaves behind
__init__(cfg, geofile, relfile) ==
    IF ~geofile.exists
    THEN [NoObject EXCEPT !.pc = "failed", !.err = "ValueError",
                          !.weight_col = cfg.weight_col, !.output_dim = cfg.output_dim]
    ELSE Built(WithRel(_load_geo([NoObject EXCEPT !.weight_col = cfg.weight_col,
                                                  !.output_dim = cfg.output_dim], geofile),
                       cfg, relfile))

----------------------------------------------------------------------------
(* _load_dyna and _add_time_meta_information.  A timestamp is [day, slot]: *)
(* the day counted from 1970-01-01 and the sampling slot within the day.   *)

\* sampling slots per day of the modelled tables
SlotsPerDay == 2

RECURSIVE Concat(_)
Concat(ss) == IF ss = <<>> THEN <<>> ELSE Head(ss) \o Concat(Tail(ss))

\* the 3-D array (len_time, num_nodes, feature_dim) and the timestamps, for
\* data_col = '' (every property column is loaded)
_load_dyna(dynafile, geo_ids) ==
    IF ~dynafile.exists THEN [err |-> "FileNotFoundError", data |-> <<>>, timesolts |-> <<>>]
    ELSE IF Len(geo_ids) = 0 THEN [err |-> "ZeroDivisionError", data |-> <<>>, timesolts |-> <<>>]
    ELSE LET rows == dynafile.rows
             len_time == Len(rows) \div Len(geo_ids)
         IN  IF len_time = 0 \/ Len(rows) # len_time * Len(geo_ids)
             THEN [err |-> "ValueError", data |-> <<>>, timesolts |-> <<>>]
             ELSE [err |-> "",
                   timesolts |-> [t \in 1..len_time |-> rows[t].time],
                   data |-> [t \in 1..len_time |->
                               [e \in 1..Len(geo_ids) |-> rows[(e - 1) * len_time + t].vals]]]

\* (ts - ts.astype("datetime64[D]")) / np.timedelta64(1, "D")
time_ind(ts) == Num(Rat(ts.slot, SlotsPerDay))

\* datetime.weekday() of the day: Monday is 0, and 1970-01-01 was a Thursday
weekday(ts) == (ts.day + 3) % 7

day_in_week(ts) == [d \in 1..7 |-> IntF(IF d - 1 = weekday(ts) THEN 1 ELSE 0)]

_add_time_meta_information(data, timesolts, cfg) ==
    [t \in DOMAIN data |-> [e \in DOMAIN data[t] |->
        data[t][e]
        \o (IF cfg.add_time_in_day THEN <<time_ind(timesolts[t])>> ELSE <<>>)
        \o (IF cfg.add_day_in_week THEN day_in_week(timesolts[t]) ELSE <<>>)]]

----------------------------------------------------------------------------
(* _generate_train_val_test and _load_cache_train_val_test.                *)

\* a[idx] for a sequence idx of 0-based indices
Take(a, idx) == [k \in DOMAIN idx |-> a[idx[k] + 1]]

num_test_of(num_samples, cfg) ==
    round(RMul(<<num_samples, 1>>, RSub(RSub(ROne, cfg.train_rate), cfg.eval_rate)))

num_train_of(num_samples, cfg) == round(RMul(<<num_samples, 1>>, cfg.train_rate))

num_val_of(num_samples, cfg) ==
    num_samples - num_test_of(num_samples, cfg) - num_train_of(num_samples, cfg)

\* the indices of x (and of y) each returned array is a view of:
\* x[:num_train], x[num_train: num_train + num_val], x[-num_test:]
train_view(n, cfg) == Slice(n, 0, num_train_of(n, cfg))

val_view(n, cfg) ==
    Slice(n, num_train_of(n, cfg), num_train_of(n, cfg) + num_val_of(n, cfg))

test_view(n, cfg) == Slice(n, -num_test_of(n, cfg), n)

NoArrays ==
    [x_train |-> <<>>, y_train |-> <<>>, x_val |-> <<>>, y_val |-> <<>>,
     x_test |-> <<>>, y_test |-> <<>>, feature_dim |-> 0]

\* the six arrays that are views train, val, test of x and y; feature_dim is
\* the length of their last axis (an empty array keeps its shape)
SixArrays(x, y, train, val, test, feature_dim) ==
    [x_train |-> Take(x, train), y_train |-> Take(y, train),
     x_val |-> Take(x, val), y_val |-> Take(y, val),
     x_test |-> Take(x, test), y_test |-> Take(y, test),
     feature_dim |-> feature_dim]

NoSplit ==
    [err |-> "", x |-> <<>>, y |-> <<>>, train |-> <<>>, val |-> <<>>, test |-> <<>>,
     feature_dim |-> 0, arrays |-> NoArrays, saved |-> FALSE]

\* the split of the windowed samples w, whose last axis has feature_dim entries
SplitOf(cfg, w, feature_dim) ==
    IF w.err # "" THEN [NoSplit EXCEPT !.err = w.err]
    ELSE [err |-> "", x |-> w.x, y |-> w.y,
          train |-> train_view(Len(w.x), cfg), val |-> val_view(Len(w.x), cfg),
          test |-> test_view(Len(w.x), cfg), feature_dim |-> feature_dim,
          arrays |-> SixArrays(w.x, w.y, train_view(Len(w.x), cfg), val_view(Len(w.x), cfg),
                               test_view(Len(w.x), cfg), feature_dim),
          saved |-> cfg.cache_dataset]

\* the windows and the split of the augmented array a
SplitOfAugmented(cfg, a) ==
    SplitOf(cfg, _generate_input_data(a, cfg.input_window, cfg.output_window), Len(a[1][1]))

\* the function after _load_dyna
SplitOfLoaded(cfg, loaded) ==
    IF loaded.err # "" THEN [NoSplit EXCEPT !.err = loaded.err]
    ELSE SplitOfAugmented(cfg, _add_time_meta_information(loaded.data, loaded.timesolts, cfg))

\* The function up to its return: x, y and the views into them it returns,
\* and saved, whether np.savez_compressed wrote them (cache_dataset is set).
_generate_train_val_test(o, cfg, dynafile) ==
    SplitOfLoaded(cfg, _load_dyna(dynafile, o.geo_ids))

NoCacheFile == [exists |-> FALSE]

\* np.load of the file and the six reads by name
_load_cache_train_val_test(file) ==
    [x_train |-> file.arrays.x_train, y_train |-> file.arrays.y_train,
     x_val |-> file.arrays.x_val, y_val |-> file.arrays.y_val,
     x_test |-> file.arrays.x_test, y_test |-> file.arrays.y_test,
     feature_dim |-> file.arrays.feature_dim]

----------------------------------------------------------------------------
(* _get_scalar and the scalers' transform.  The scaler classes live in     *)
(* trafficdl.utils; their transforms are the ones the specification gives. *)

\* the 0-based channels a[..., :output_dim] selects of feature_dim channels
Channels(feature_dim, output_dim) == Range(Slice(feature_dim, 0, output_dim))

\* the values of a[..., :output_dim] of a 4-D array, as rationals, flattened
Flat(a, output_dim) ==
    Concat([i \in DOMAIN a |-> Concat([t \in DOMAIN a[i] |-> Concat([e \in DOMAIN a[i][t] |->
        LET node == a[i][t][e]
            idx == Slice(Len(node), 0, output_dim)
        IN  [k \in DOMAIN idx |-> node[idx[k] + 1].a]])])])

\* the scaler built from the flattened slices xt, yt (train), xv, yv
\* (validation), xs, ys (test), or err = "ValueError": an unknown type, or
\* max()/min() of an array with no element
ScalerOf(scaler_type, xt, yt, xv, yv, xs, ys) ==
    IF scaler_type = "normal"
    THEN IF \E s \in {xt, yt, xv, yv, xs, ys} : s = <<>>
         THEN [err |-> "ValueError", scaler |-> NoScaler]
         ELSE [err |-> "", scaler |-> [NoScaler EXCEPT !.type = "normal",
                 !.max = Num(RMax(Range(xt) \cup Range(yt) \cup Range(xv)
                                  \cup Range(yv) \cup Range(xs) \cup Range(ys)))]]
    ELSE IF scaler_type = "standard"
    THEN IF xt = <<>>
         THEN [err |-> "", scaler |-> [NoScaler EXCEPT !.type = "standard"]]
         ELSE [err |-> "", scaler |-> [NoScaler EXCEPT !.type = "standard",
                 !.mean = Num(RDiv(RSum(xt), <<Len(xt), 1>>)),
                 !.var = Num(Variance(xt))]]
    ELSE IF scaler_type \in {"minmax01", "minmax11"}
    THEN IF xt = <<>> \/ yt = <<>>
         THEN [err |-> "ValueError", scaler |-> NoScaler]
         ELSE [err |-> "", scaler |-> [NoScaler EXCEPT !.type = scaler_type,
                 !.max = Num(RMax(Range(xt) \cup Range(yt))),
                 !.min = Num(RMin(Range(xt) \cup Range(yt)))]]
    ELSE IF scaler_type = "none"
    THEN [err |-> "", scaler |-> [NoScaler EXCEPT !.type = "none"]]
    ELSE [err |-> "ValueError", scaler |-> NoScaler]

_get_scalar(scaler_type, output_dim, arrs) ==
    ScalerOf(scaler_type, Flat(arrs.x_train, output_dim), Flat(arrs.y_train, output_dim),
             Flat(arrs.x_val, output_dim), Flat(arrs.y_val, output_dim),
             Flat(arrs.x_test, output_dim), Flat(arrs.y_test, output_dim))

\* scaler.transform of one value
transform(scaler, v) ==
    IF scaler.type = "normal" THEN FAffine(v, RZero, scaler.max.a)
    ELSE IF scaler.type = "standard"
    THEN (IF scaler.mean.k = "nan" THEN NaN ELSE FStandard(v, scaler.mean.a, scaler.var.a))
    ELSE IF scaler.type = "minmax01"
    THEN FAffine(v, scaler.min.a, RSub(scaler.max.a, scaler.min.a))
    ELSE IF scaler.type = "minmax11"
    THEN FTwiceMinusOne(FAffine(v, scaler.min.a, RSub(scaler.max.a, scaler.min.a)))
    ELSE v

\* s[..., :output_dim] = scaler.transform(s[..., :output_dim]) for one sample s
ScaleSample(s, scaler, output_dim) ==
    [t \in DOMAIN s |-> [e \in DOMAIN s[t] |-> [c \in DOMAIN s[t][e] |->
        IF c - 1 \in Channels(Len(s[t][e]), output_dim)
        THEN transform(scaler, s[t][e][c]) ELSE s[t][e][c]]]]

\* the same assignment through a view idx of the array buf: the samples of
\* buf the view covers are rewritten in buf itself
ScaleView(buf, idx, scaler, output_dim) ==
    [i \in DOMAIN buf |->
        IF i - 1 \in Range(idx) THEN ScaleSample(buf[i], scaler, output_dim) ELSE buf[i]]

\* the same assignment to an array that owns its memory
ScaleArray(a, scaler, output_dim) == ScaleView(a, PyRange(0, Len(a)), scaler, output_dim)

\* the six assignments of get_data, in program order, on arrays that are views
\* of x and y (a cache miss): what each view reads afterwards
ScaleViews(g, scaler, output_dim) ==
    LET x1 == ScaleView(g.x, g.train, scaler, output_dim)
        y1 == ScaleView(g.y, g.train, scaler, output_dim)
        x2 == ScaleView(x1, g.val, scaler, output_dim)
        y2 == ScaleView(y1, g.val, scaler, output_dim)
        x3 == ScaleView(x2, g.test, scaler, output_dim)
        y3 == ScaleView(y2, g.test, scaler, output_dim)
    IN  SixArrays(x3, y3, g.train, g.val, g.test, g.feature_dim)

\* the six assignments on arrays np.load returned (a cache hit)
ScaleLoaded(arrs, scaler, output_dim) ==
    [x_train |-> ScaleArray(arrs.x_train, scaler, output_dim),
     y_train |-> ScaleArray(arrs.y_train, scaler, output_dim),
     x_val |-> ScaleArray(arrs.x_val, scaler, output_dim),
     y_val |-> ScaleArray(arrs.y_val, scaler, output_dim),
     x_test |-> ScaleArray(arrs.x_test, scaler, output_dim),
     y_test |-> ScaleArray(arrs.y_test, scaler, output_dim),
     feature_dim |-> arrs.feature_dim]

----------------------------------------------------------------------------
(* get_data.                                                               *)

\* list(zip(x, y))
Zip(x, y) == [i \in 1..(IF Len(x) < Len(y) THEN Len(x) ELSE Len(y)) |-> <<x[i], y[i]>>]

\* the output_dim get_data settles on
output_dim_of(o, cfg, feature_dim) ==
    IF o.output_dim = 0
    THEN feature_dim - (IF cfg.add_time_in_day THEN 1 ELSE 0)
                     - (IF cfg.add_day_in_week THEN 7 ELSE 0)
    ELSE o.output_dim

\* generate_dataloader lives in trafficdl.data.utils: the loaders are kept as
\* the three lists of (x, y) pairs it is handed
generate_dataloader(arrs) ==
    [built |-> TRUE, train |-> Zip(arrs.x_train, arrs.y_train),
     eval |-> Zip(arrs.x_val, arrs.y_val), test |-> Zip(arrs.x_test, arrs.y_test)]

\* the end of get_data: the six assignments and the loaders, for the scaler
\* sc that _get_scalar built or failed to build
Normalized(o, arrs, hit, g, file, sc) ==
    IF sc.err # "" THEN [o |-> [o EXCEPT !.err = sc.err], file |-> file]
    ELSE [o |-> [o EXCEPT !.scaler = sc.scaler,
                   !.dataloaders = generate_dataloader(
                       IF hit THEN ScaleLoaded(arrs, sc.scaler, o.output_dim)
                       ELSE ScaleViews(g, sc.scaler, o.output_dim))],
          file |-> file]

\* get_data from `self.feature_dim = x_train.shape[-1]` on, for the output_dim
\* it settles on
WithOutputDim(o, cfg, arrs, hit, g, file, od) ==
    Normalized([o EXCEPT !.feature_dim = arrs.feature_dim, !.output_dim = od],
               arrs, hit, g, file, _get_scalar(cfg.scaler_type, od, arrs))

\* get_data once the six arrays are in hand: loaded from the cache file
\* (hit), or the views g that _generate_train_val_test returned
WithArrays(o, cfg, arrs, hit, g, file) ==
    WithOutputDim(o, cfg, arrs, hit, g, file, output_dim_of(o, cfg, arrs.feature_dim))

\* get_data after a cache miss, for the result g of _generate_train_val_test
Generated(o, cfg, file, g) ==
    IF g.err # "" THEN [o |-> [o EXCEPT !.err = g.err], file |-> file]
    ELSE WithArrays(o, cfg, g.arrays, FALSE, g,
                    IF g.saved THEN [exists |-> TRUE, arrays |-> g.arrays] ELSE file)

\* the object as a call of get_data first leaves it
Entered(o) == [o EXCEPT !.data = "{}", !.calls = @ + 1, !.err = ""]

\* One call: the object and the cache file it leaves; o.err names what it
\* raised.  On a second call x_train is the list [] and has no shape.
get_data(o, cfg, dynafile, file) ==
    IF o.data # "None"
    THEN [o |-> [Entered(o) EXCEPT !.err = "AttributeError"], file |-> file]
    ELSE IF cfg.cache_dataset /\ file.exists
    THEN WithArrays(Entered(o), cfg, _load_cache_train_val_test(file), TRUE, NoSplit, file)
    ELSE Generated(Entered(o), cfg, file, _generate_train_val_test(o, cfg, dynafile))

----------------------------------------------------------------------------
(* LINE.__init__.                                                          *)

NoLine == [pc |-> "none", order |-> "", embed |-> "", err |-> ""]

LINE__init__(order) ==
    IF order = "first"
    THEN [pc |-> "constructed", order |-> order, embed |-> "LINE_FIRST", err |-> ""]
    ELSE IF order = "second"
    THEN [pc |-> "constructed", order |-> order, embed |-> "LINE_SECOND", err |-> ""]
    ELSE [pc |-> "failed", order |-> order, embed |-> "", err |-> "ValueError"]

----------------------------------------------------------------------------
(* The inputs: configurations and tables.                                  *)

ValidScalers == {"normal", "standard", "minmax01", "minmax11", "none"}

Rates(den) == {Rat(k, den) : k \in 0..den}

\* the options the model reads, at fixed values the specifications vary
BaseConfig ==
    [input_window |-> 1, output_window |-> 1, output_dim |-> 0,
     add_time_in_day |-> FALSE, add_day_in_week |-> FALSE,
     weight_col |-> "", calculate_weight |-> FALSE,
     train_rate |-> Rat(1, 2), eval_rate |-> Rat(1, 4),
     scaler_type |-> "none", cache_dataset |-> TRUE, order |-> "first"]

\* the timestamp of the t-th sampling slot (t from 1), from 1970-01-01T00:00
Timestamp(t) == [day |-> (t - 1) \div SlotsPerDay, slot |-> (t - 1) % SlotsPerDay]

\* a .dyna table of one entity "a" and one property column, holding vs
DynaTable(vs) ==
    [exists |-> TRUE,
     rows |-> [t \in DOMAIN vs |->
                 [time |-> Timestamp(t), entity_id |-> "a", vals |-> <<IntF(vs[t])>>]]]

OneEntity == [exists |-> TRUE, geo_id |-> <<"a">>]

NoRelFile == [exists |-> FALSE, ncols |-> 5, last_col |-> "w", rows |-> <<>>]

NoRet == [called |-> FALSE]

\* the value of a variable a specification has no operation on
NotUsed == <<>>

NoRuns == [r \in {"A", "B"} |-> NoArrays]

NoScalers == [r \in {"A", "B"} |-> [called |-> FALSE, err |-> "", scaler |-> NoScaler]]

\* an object no constructor has run for
Unbuilt == [pc |-> "none"]

----------------------------------------------------------------------------
(* The operations.                                                         *)

\* TrafficSpeedDataset(config)
Construct(o) ==
    /\ objs[o].pc = "none"
    /\ objs' = [objs EXCEPT ![o] = __init__(config, geo_file, rel_file)]
    /\ UNCHANGED <<config, geo_file, rel_file, dyna, cache_file, df, ret, runs, scalers, line>>

\* o.get_data()
GetData(o) ==
    /\ objs[o].pc = "constructed"
    /\ objs[o].calls < MaxCalls
    /\ LET r == get_data(objs[o], config, dyna, cache_file)
       IN  /\ objs' = [objs EXCEPT ![o] = r.o]
           /\ cache_file' = r.file
    /\ UNCHANGED <<config, geo_file, rel_file, dyna, df, ret, runs, scalers, line>>

\* o._generate_train_val_test(), called on its own
GenerateTrainValTest(o) ==
    /\ objs[o].pc = "constructed"
    /\ ~ret.called
    /\ LET g == _generate_train_val_test(objs[o], config, dyna)
       IN  /\ ret' = [called |-> TRUE, err |-> g.err, arrays |-> g.arrays]
           /\ cache_file' = IF g.err = "" /\ g.saved
                            THEN [exists |-> TRUE, arrays |-> g.arrays] ELSE cache_file
    /\ UNCHANGED <<config, geo_file, rel_file, dyna, objs, df, runs, scalers, line>>

\* o._generate_input_data(df), called on its own
GenerateInputData ==
    /\ ~ret.called
    /\ LET w == _generate_input_data(df, config.input_window, config.output_window)
       IN  ret' = [called |-> TRUE, err |-> w.err, x |-> w.x, y |-> w.y, visited |-> w.visited]
    /\ UNCHANGED <<config, geo_file, rel_file, dyna, cache_file, objs, df, runs, scalers, line>>

\* _get_scalar on the six arrays of run r, with self.output_dim as configured
GetScalar(r) ==
    /\ ~scalers[r].called
    /\ LET sc == _get_scalar(config.scaler_type, config.output_dim, runs[r])
       IN  scalers' = [scalers EXCEPT ![r] = [called |-> TRUE, err |-> sc.err, scaler |-> sc.scaler]]
    /\ UNCHANGED <<config, geo_file, rel_file, dyna, cache_file, objs, df, ret, runs, line>>

\* LINE(config, data_feature)
LineInit ==
    /\ line.pc = "none"
    /\ line' = LINE__init__(config.order)
    /\ UNCHANGED <<config, geo_file, rel_file, dyna, cache_file, objs, df, ret, runs, scalers>>

----------------------------------------------------------------------------
(* _generate_input_data on its own: every series length and window pair.   *)

InitWindow ==
    /\ \E iw \in 1..MaxWin, ow \in 1..MaxWin :
          config = [BaseConfig EXCEPT !.input_window = iw, !.output_window = ow]
    /\ \E T \in 0..MaxT : df = [t \in 1..T |-> t - 1]
    /\ geo_file = NotUsed
    /\ rel_file = NotUsed
    /\ dyna = NotUsed
    /\ cache_file = NotUsed
    /\ objs = NotUsed
    /\ ret = NoRet
    /\ runs = NotUsed
    /\ scalers = NotUsed
    /\ line = NotUsed

NextWindow == GenerateInputData

SpecWindow == InitWindow /\ [][NextWindow]_vars

\* C3: when the series has at least input_window + output_window steps,
\* _generate_input_data returns T - input_window - output_window + 1 samples
\* in chronological order; sample k (0-based) has input steps
\* k .. k + input_window - 1 and target steps k + input_window ..
\* k + input_window + output_window - 1.  (df[t] holds its own index t.)
C3_WindowSamples ==
    (ret.called /\ Len(df) >= config.input_window + config.output_window) =>
        LET iw == config.input_window
            ow == config.output_window
            count == Len(df) - iw - ow + 1
        IN  /\ ret.err = ""
            /\ Len(ret.x) = count
            /\ Len(ret.y) = count
            /\ \A k \in 0..(count - 1) :
                  /\ ret.x[k + 1] = [j \in 1..iw |-> k + j - 1]
                  /\ ret.y[k + 1] = [j \in 1..ow |-> k + iw + j - 1]

\* C3's case: several samples were cut with windows longer than one step
C3_Witness ==
    /\ ret.called
    /\ config.input_window >= 2
    /\ config.output_window >= 2
    /\ Len(df) > config.input_window + config.output_window
    /\ Len(ret.x) >= 2

\* C4: every offset t the loop of _generate_input_data visits reads inside
\* the series: t - (input_window - 1) >= 0 and t + output_window <= T - 1,
\* for every series length T >= 0.
C4_OffsetsInBounds ==
    ret.called =>
        \A k \in DOMAIN ret.visited :
            /\ ret.visited[k] - (config.input_window - 1) >= 0
            /\ ret.visited[k] + config.output_window <= Len(df) - 1

----------------------------------------------------------------------------
(* _generate_train_val_test on its own: every ratio pair in steps of       *)
(* 1 / RateDen, over series whose steps all differ (step t measures t).    *)

InitSplit ==
    /\ \E iw \in 1..MaxWin, ow \in 1..MaxWin, tr \in Rates(RateDen), er \in Rates(RateDen),
          cd \in BOOLEAN :
          config = [BaseConfig EXCEPT !.input_window = iw, !.output_window = ow,
                                      !.train_rate = tr, !.eval_rate = er,
                                      !.cache_dataset = cd]
    /\ \E T \in 1..MaxT : dyna = DynaTable([t \in 1..T |-> t])
    /\ geo_file = OneEntity
    /\ rel_file = NoRelFile
    /\ cache_file = NoCacheFile
    /\ objs = <<Unbuilt>>
    /\ ret = NoRet
    /\ df = NotUsed
    /\ runs = NotUsed
    /\ scalers = NotUsed
    /\ line = NotUsed

NextSplit ==
    (\E o \in DOMAIN objs : Construct(o)) \/ (\E o \in DOMAIN objs : GenerateTrainValTest(o))

SpecSplit == InitSplit /\ [][NextSplit]_vars

\* the windowed sample set the split of the first object is made of
Windowed ==
    LET loaded == _load_dyna(dyna, objs[1].geo_ids)
    IN  _generate_input_data(
            _add_time_meta_information(loaded.data, loaded.timesolts, config),
            config.input_window, config.output_window)

\* train_rate + eval_rate <= 1
RatesValid == RLeq(RAdd(config.train_rate, config.eval_rate), ROne)

\* C1: for ratios with train_rate + eval_rate <= 1, the three partitions are
\* contiguous ranges in chronological order, pairwise disjoint, and hold every
\* sample exactly once: train, then validation, then test make up the sample
\* set (whose samples all differ here).
C1_PartitionsCover ==
    (ret.called /\ ret.err = "" /\ RatesValid) =>
        /\ ret.arrays.x_train \o ret.arrays.x_val \o ret.arrays.x_test = Windowed.x
        /\ ret.arrays.y_train \o ret.arrays.y_val \o ret.arrays.y_test = Windowed.y

\* C2: when train_rate + eval_rate > 1, _generate_train_val_test raises
\* instead of returning partitions, and writes no cache file.
C2_RatioSumRejected ==
    (ret.called /\ ~RatesValid) => (ret.err # "" /\ ~cache_file.exists)

\* C6: the partition lengths are train = round(n * train_rate),
\* test = round(n * (1 - train_rate - eval_rate)), validation = n - train - test,
\* each >= 0 and summing to n (for ratios with train_rate + eval_rate <= 1).
C6_PartitionLengths ==
    (ret.called /\ ret.err = "" /\ RatesValid) =>
        LET n == Len(Windowed.x)
            train == round(RMul(<<n, 1>>, config.train_rate))
            test == round(RMul(<<n, 1>>, RSub(RSub(ROne, config.train_rate), config.eval_rate)))
        IN  /\ Len(ret.arrays.x_train) = train
            /\ Len(ret.arrays.x_test) = test
            /\ Len(ret.arrays.x_val) = n - train - test
            /\ train >= 0 /\ test >= 0 /\ n - train - test >= 0
            /\ Len(ret.arrays.x_train) + Len(ret.arrays.x_val) + Len(ret.arrays.x_test) = n

----------------------------------------------------------------------------
(* _get_scalar twice: runs A and B share their training arrays and differ  *)
(* in their validation and test arrays.                                    *)

\* a 4-D array of one sample, one step, one node and one channel holding v
OneValue(v) == << << << <<IntF(v)>> >> >> >>

InitScalar ==
    /\ \E st \in ValidScalers \cup {"other"} :
          config = [BaseConfig EXCEPT !.scaler_type = st, !.output_dim = 1]
    /\ \E xt \in 1..MaxVal, yt \in 1..MaxVal, rest \in [{"A", "B"} \X (1..4) -> 1..MaxVal] :
          runs = [r \in {"A", "B"} |->
                    [x_train |-> OneValue(xt), y_train |-> OneValue(yt),
                     x_val |-> OneValue(rest[<<r, 1>>]), y_val |-> OneValue(rest[<<r, 2>>]),
                     x_test |-> OneValue(rest[<<r, 3>>]), y_test |-> OneValue(rest[<<r, 4>>]),
                     feature_dim |-> 1]]
    /\ scalers = NoScalers
    /\ geo_file = NotUsed
    /\ rel_file = NotUsed
    /\ dyna = NotUsed
    /\ cache_file = NotUsed
    /\ objs = NotUsed
    /\ df = NotUsed
    /\ ret = NotUsed
    /\ line = NotUsed

NextScalar == \E r \in {"A", "B"} : GetScalar(r)

SpecScalar == InitScalar /\ [][NextScalar]_vars

\* C5: for every scaler type, two runs with identical training arrays build
\* scalers with identical statistics, whatever their validation and test
\* arrays hold.
C5_TrainingOnlyStatistics ==
    (scalers["A"].called /\ scalers["B"].called) =>
        (scalers["A"].err = scalers["B"].err /\ scalers["A"].scaler = scalers["B"].scaler)

----------------------------------------------------------------------------
(* get_data on MaxObj objects built from one configuration over the same   *)
(* tables and sharing the cache file.                                      *)

\* the measurements of a series of T steps: all 1 (k = 0), or cycling through
\* 1..MaxVal (k = 1)
Series(T, k) == [t \in 1..T |-> 1 + ((t * k) % MaxVal)]

InitData ==
    /\ \E iw \in 1..2, ow \in 1..2, tid \in BOOLEAN, diw \in BOOLEAN,
          tr \in Rates(2), er \in Rates(2), st \in ValidScalers, cd \in BOOLEAN :
          config = [BaseConfig EXCEPT !.input_window = iw, !.output_window = ow,
                                      !.add_time_in_day = tid, !.add_day_in_week = diw,
                                      !.train_rate = tr, !.eval_rate = er,
                                      !.scaler_type = st, !.cache_dataset = cd]
    /\ \E T \in (MaxLen - 1)..MaxLen, k \in 0..1 : dyna = DynaTable(Series(T, k))
    /\ geo_file = OneEntity
    /\ rel_file = NoRelFile
    /\ cache_file = NoCacheFile
    /\ objs = [o \in 1..MaxObj |-> Unbuilt]
    /\ df = NotUsed
    /\ ret = NotUsed
    /\ runs = NotUsed
    /\ scalers = NotUsed
    /\ line = NotUsed

NextData == (\E o \in DOMAIN objs : Construct(o)) \/ (\E o \in DOMAIN objs : GetData(o))

Spec == InitData /\ [][NextData]_vars

\* the objects get_data has handed loaders to
Served == {o \in DOMAIN objs : objs[o].pc = "constructed" /\ objs[o].dataloaders.built}

\* the six arrays behind the loaders of object o
Handed(o) ==
    LET dl == objs[o].dataloaders
    IN  [x_train |-> [i \in DOMAIN dl.train |-> dl.train[i][1]],
         y_train |-> [i \in DOMAIN dl.train |-> dl.train[i][2]],
         x_val |-> [i \in DOMAIN dl.eval |-> dl.eval[i][1]],
         y_val |-> [i \in DOMAIN dl.eval |-> dl.eval[i][2]],
         x_test |-> [i \in DOMAIN dl.test |-> dl.test[i][1]],
         y_test |-> [i \in DOMAIN dl.test |-> dl.test[i][2]]]

\* C7: under one configuration and the same tables, get_data hands the same
\* six scaled arrays whether it generated them (and wrote the cache file) or
\* loaded them from that file: any two objects served hold equal loaders.
\* Stated for the ratios the configuration allows, train_rate + eval_rate <= 1.
C7_CachePathsAgree ==
    RatesValid =>
        \A o1 \in Served, o2 \in Served : objs[o1].dataloaders = objs[o2].dataloaders

\* C11: get_data is repeatable on one object: once a call has handed over
\* loaders, every call on that object succeeds, so an object holding loaders
\* is never left with an error raised by its latest get_data call.
C11_GetDataRepeatable ==
    \A o \in DOMAIN objs :
        (objs[o].pc = "constructed" /\ objs[o].dataloaders.built) => objs[o].err = ""

ArrayNames == {"x_train", "y_train", "x_val", "y_val", "x_test", "y_test"}

\* C8: every value of the six arrays handed over is the scaler's transform,
\* applied once, of the value generated for it when its channel is among the
\* first output_dim, and that value unchanged otherwise; with no override,
\* output_dim = feature_dim - 1 (time of day) - 7 (day of week).  Stated for
\* the ratios the configuration allows, train_rate + eval_rate <= 1.
C8_ScaledOnceLeadingChannels ==
    RatesValid => \A o \in Served :
        LET raw == _generate_train_val_test(objs[o], config, dyna).arrays
            got == Handed(o)
            od == objs[o].output_dim
        IN  /\ config.output_dim = 0 =>
                  od = objs[o].feature_dim - (IF config.add_time_in_day THEN 1 ELSE 0)
                                           - (IF config.add_day_in_week THEN 7 ELSE 0)
            /\ \A name \in ArrayNames :
                  /\ Len(got[name]) = Len(raw[name])
                  /\ \A i \in DOMAIN raw[name] : \A t \in DOMAIN raw[name][i] :
                        \A e \in DOMAIN raw[name][i][t] : \A c \in DOMAIN raw[name][i][t][e] :
                            got[name][i][t][e][c] =
                                IF c <= od THEN transform(objs[o].scaler, raw[name][i][t][e][c])
                                ELSE raw[name][i][t][e][c]

----------------------------------------------------------------------------
(* The enum selections: TrafficSpeedDataset under every scaler type, one    *)
(* outside the five it knows included, and LINE under every order.          *)

InitEnum ==
    /\ \E st \in ValidScalers \cup {"other"}, ord \in {"first", "second", "third"},
          cd \in BOOLEAN :
          config = [BaseConfig EXCEPT !.scaler_type = st, !.order = ord,
                                      !.cache_dataset = cd]
    /\ \E T \in (MaxLen - 1)..MaxLen : dyna = DynaTable(Series(T, 1))
    /\ geo_file = OneEntity
    /\ rel_file = NoRelFile
    /\ cache_file = NoCacheFile
    /\ objs = [o \in 1..MaxObj |-> Unbuilt]
    /\ line = NoLine
    /\ df = NotUsed
    /\ ret = NotUsed
    /\ runs = NotUsed
    /\ scalers = NotUsed

NextEnum ==
    \/ \E o \in DOMAIN objs : Construct(o)
    \/ \E o \in DOMAIN objs : GetData(o)
    \/ LineInit

SpecEnum == InitEnum /\ [][NextEnum]_vars

\* C9: an invalid enum selection is rejected at construction: with a scaler
\* type outside the five known ones no TrafficSpeedDataset is ever left
\* constructed and no cache file is ever written, and with an order other
\* than 'first' or 'second' no LINE is ever left constructed.
C9_InvalidEnumRejected ==
    /\ config.scaler_type \notin ValidScalers =>
          /\ \A o \in DOMAIN objs : objs[o].pc # "constructed"
          /\ ~cache_file.exists
    /\ config.order \notin {"first", "second"} => line.pc # "constructed"

----------------------------------------------------------------------------
(* _load_rel through the constructor: every entity table of distinct ids,  *)
(* every relation table of at most MaxRows rows.                           *)

Entities == {"a", "b"}

\* the entity tables: no entity, "a" alone (so "b" is unknown), or both
GeoTables == {<<>>, <<"a">>, <<"a", "b">>, <<"b", "a">>}

\* a weight column holds small weights, one that np.float32 cannot hold
\* exactly (left out where the Gauss kernel would square it), or no value
Weights(calculate_weight) ==
    {IntF(1), IntF(2), NaN} \cup
        (IF calculate_weight THEN {} ELSE {IntF(Float32Exact + 1)})

RelRows(calculate_weight) ==
    [origin_id : Entities, destination_id : Entities, w : Weights(calculate_weight)]

RelTables(calculate_weight) ==
    UNION {[1..n -> RelRows(calculate_weight)] : n \in 0..MaxRows}

InitRel ==
    /\ \E wc \in {"", "w"}, cw \in BOOLEAN :
          /\ config = [BaseConfig EXCEPT !.weight_col = wc, !.calculate_weight = cw]
          /\ \E nc \in {5, 6}, rows \in RelTables(cw) :
                rel_file = [exists |-> TRUE, ncols |-> nc, last_col |-> "w", rows |-> rows]
    /\ geo_file \in {[exists |-> FALSE, geo_id |-> <<>>]}
                        \cup {[exists |-> TRUE, geo_id |-> ids] : ids \in GeoTables}
    /\ objs = <<Unbuilt>>
    /\ dyna = NotUsed
    /\ cache_file = NotUsed
    /\ df = NotUsed
    /\ ret = NotUsed
    /\ runs = NotUsed
    /\ scalers = NotUsed
    /\ line = NotUsed

NextRel == \E o \in DOMAIN objs : Construct(o)

SpecRel == InitRel /\ [][NextRel]_vars

\* the constructor has run over tables _load_rel can read, with weight
\* calculation disabled
RelLoaded ==
    /\ objs[1].pc # "none"
    /\ geo_file.exists
    /\ ~config.calculate_weight
    /\ ~(config.weight_col = "" /\ rel_file.ncols # 5)

\* the rows of the relation file from the i-th entity to the j-th
RowsBetween(i, j) ==
    {k \in DOMAIN rel_file.rows :
        /\ rel_file.rows[k].origin_id = geo_file.geo_id[i]
        /\ rel_file.rows[k].destination_id = geo_file.geo_id[j]}

\* C10 as stated: with weight calculation disabled, _load_rel raises nothing
\* and leaves an n x n matrix whose cell (i, j) holds the weight of a relation
\* row from entity i to entity j if there is such a row, and +inf otherwise.
C10_CellHoldsRowWeight ==
    RelLoaded =>
        LET n == Len(geo_file.geo_id)
            adj == objs[1].adj_mx
        IN  /\ objs[1].pc = "constructed"
            /\ Len(adj) = n
            /\ \A i \in 1..n :
                  /\ Len(adj[i]) = n
                  /\ \A j \in 1..n :
                        IF RowsBetween(i, j) = {} THEN adj[i][j] = PInf
                        ELSE \E k \in RowsBetween(i, j) : adj[i][j] = rel_file.rows[k].w

\* C10: with weight calculation disabled, _load_rel raises nothing and leaves
\* an n x n matrix whose cell (i, j) holds the single-precision value of the
\* weight of the last relation row from entity i to entity j whose weight is
\* not missing, and +inf when there is no such row; rows naming an unknown
\* entity, and rows with a missing weight, change no cell.
C10_CellHoldsLastPresentWeight ==
    RelLoaded =>
        LET n == Len(geo_file.geo_id)
            adj == objs[1].adj_mx
        IN  /\ objs[1].pc = "constructed"
            /\ Len(adj) = n
            /\ \A i \in 1..n :
                  /\ Len(adj[i]) = n
                  /\ \A j \in 1..n :
                        LET present == {k \in RowsBetween(i, j) : rel_file.rows[k].w.k # "nan"}
                        IN  IF present = {} THEN adj[i][j] = PInf
                            ELSE adj[i][j] = float32(rel_file.rows[Max(present)].w)

\* C10's case: a matrix was loaded from a table with a row naming an unknown
\* entity and a row whose weight np.float32 rounds
C10_Witness ==
    /\ RelLoaded
    /\ objs[1].pc = "constructed"
    /\ \E k \in DOMAIN rel_file.rows :
          rel_file.rows[k].origin_id \notin Range(geo_file.geo_id)
    /\ \E i \in DOMAIN objs[1].adj_mx : \E j \in DOMAIN objs[1].adj_mx[i] :
          /\ objs[1].adj_mx[i][j] = IntF(Float32Exact)
          /\ \E k \in RowsBetween(i, j) : rel_file.rows[k].w = IntF(Float32Exact + 1)

====
